---------------------------- MODULE Spec2Model ----------------------------
(***************************************************************************)
(* The cart reconciliation engine of src/src/pizzaz-shop/index.tsx: the    *)
(* merge effect (toolInput / toolOutput / widgetState -> cartState) and     *)
(* the local edit adjustQuantity, both writing the one cartState cell.      *)
(*                                                                         *)
(* A JavaScript object is a record that carries its own key order (keys),   *)
(* because JSON.stringify, which the change detection rests on, writes the  *)
(* keys in insertion order.  A field whose key is not in keys is absent and *)
(* holds a fixed filler value.                                              *)
(***************************************************************************)
EXTENDS Integers, Sequences, FiniteSets, TLC

VARIABLES
    toolInput,           \* useOpenAiGlobal("toolInput")
    toolOutput,          \* useOpenAiGlobal("toolOutput")
    widgetState,         \* useOpenAiGlobal("widgetState"): the host state feed
    cartState,           \* the state cell of useWidgetState
    lastMergedStateRef,  \* lastMergedStateRef.current: the merge marker
    effectPending,       \* a dependency of the merge effect changed since its last run
    ev                   \* what the last handler did (observation only)

vars == <<toolInput, toolOutput, widgetState, cartState, lastMergedStateRef,
          effectPending, ev>>

-----------------------------------------------------------------------------
(* Bounds *)

\* local edits are not taken beyond this quantity
MaxQty == 2

-----------------------------------------------------------------------------
(* Objects *)

InSeq(s, k) == \E i \in 1..Len(s) : s[i] = k

Max(a, b) == IF a >= b THEN a ELSE b

\* CartItem: { name, quantity, [key]: unknown }, here with one opaque field
MkItem(keys, n, q, p) == [keys |-> keys, name |-> n, quantity |-> q, price |-> p]

Has(obj, k) == InSeq(obj.keys, k)

\* {} as an item: what spreading undefined yields
EmptyItem == MkItem(<<>>, "", 0, 0)

\* CartWidgetState: { cartId?, items?, [key]: unknown } or null.
\* arr: the value under items is an array.
MkState(keys, cid, arr, its) ==
    [nul |-> FALSE, keys |-> keys, cartId |-> cid, arr |-> arr, items |-> its]

Null == [nul |-> TRUE, keys |-> <<>>, cartId |-> "", arr |-> FALSE, items |-> <<>>]

\* {}
EmptyObject == MkState(<<>>, "", FALSE, <<>>)

\* { items: [] }
EmptyCart == MkState(<<"items">>, "", TRUE, <<>>)

\* Array.isArray(obj?.items)
ItemsIsArray(obj) == ~obj.nul /\ Has(obj, "items") /\ obj.arr

\* mutant: { ...b, ...a }, the fields of the first object win
SpreadItemFirstWins(a, b) ==
    [keys     |-> b.keys \o SelectSeq(a.keys, LAMBDA k : ~Has(b, k)),
     name     |-> IF Has(a, "name") THEN a.name ELSE b.name,
     quantity |-> IF Has(a, "quantity") THEN a.quantity ELSE b.quantity,
     price    |-> IF Has(a, "price") THEN a.price ELSE b.price]

\* { ...a, ...b } on items: a's keys keep their place, b's new keys follow,
\* b's values win
SpreadItem(a, b) ==
    [keys     |-> a.keys \o SelectSeq(b.keys, LAMBDA k : ~Has(a, k)),
     name     |-> IF Has(b, "name") THEN b.name ELSE a.name,
     quantity |-> IF Has(b, "quantity") THEN b.quantity ELSE a.quantity,
     price    |-> IF Has(b, "price") THEN b.price ELSE a.price]

\* { ...item, quantity: q }
WithQuantity(item, q) ==
    [item EXCEPT !.keys = IF Has(item, "quantity") THEN @ ELSE Append(@, "quantity"),
                 !.quantity = q]

\* mutant: { items }, without the spread of the base
WithItemsOnly(base, its) == MkState(<<"items">>, "", TRUE, its)

\* { ...base, items: its }
WithItems(base, its) ==
    [base EXCEPT !.keys = IF Has(base, "items") THEN @ ELSE Append(@, "items"),
                 !.arr = TRUE,
                 !.items = its]

\* item?.name is truthy
NameTruthy(item) == Has(item, "name") /\ item.name # ""

-----------------------------------------------------------------------------
(* JSON.stringify *)

JsonField(item, k) ==
    CASE k = "name"     -> "\"name\":\"" \o item.name \o "\""
      [] k = "quantity" -> "\"quantity\":" \o ToString(item.quantity)
      [] OTHER          -> "\"price\":" \o ToString(item.price)

RECURSIVE JsonFields(_, _)
JsonFields(item, i) ==
    IF i > Len(item.keys) THEN ""
    ELSE (IF i > 1 THEN "," ELSE "") \o JsonField(item, item.keys[i])
         \o JsonFields(item, i + 1)

JsonItem(item) == "{" \o JsonFields(item, 1) \o "}"

RECURSIVE JsonItems(_, _)
JsonItems(its, i) ==
    IF i > Len(its) THEN ""
    ELSE (IF i > 1 THEN "," ELSE "") \o JsonItem(its[i]) \o JsonItems(its, i + 1)

JsonTop(st, k) ==
    CASE k = "cartId" -> "\"cartId\":\"" \o st.cartId \o "\""
      [] OTHER        -> "\"items\":" \o
                         (IF st.arr THEN "[" \o JsonItems(st.items, 1) \o "]"
                          ELSE "\"n/a\"")

RECURSIVE JsonTops(_, _)
JsonTops(st, i) ==
    IF i > Len(st.keys) THEN ""
    ELSE (IF i > 1 THEN "," ELSE "") \o JsonTop(st, st.keys[i]) \o JsonTops(st, i + 1)

JsonStringify(st) == IF st.nul THEN "null" ELSE "{" \o JsonTops(st, 1) \o "}"

\* A value JSON.stringify throws a TypeError on (a BigInt, a cyclic object) is
\* written as a negative price: the opaque field is the only place of an item
\* where the types allow one.
Unserializable(item) == Has(item, "price") /\ item.price < 0

\* JSON.stringify(st) throws
JsonThrows(st) ==
    /\ ~st.nul /\ Has(st, "items") /\ st.arr
    /\ \E i \in 1..Len(st.items) : Unserializable(st.items[i])

-----------------------------------------------------------------------------
(* adjustQuantity *)

\* mutant: the guard without its name test
AdjustGuardDeltaOnly(name, delta) == delta = 0

\* if (!name || delta === 0) return;
AdjustGuard(name, delta) == name = "" \/ delta = 0

\* prevState ?? {}
AdjustBase(prev) == IF prev.nul THEN EmptyObject ELSE prev

\* Array.isArray(baseState.items) ? baseState.items.map(item => ({...item})) : []
AdjustItems(base) == IF ItemsIsArray(base) THEN base.items ELSE <<>>

\* items.findIndex(item => item.name === name), 0 for -1
FindIndex(its, name) ==
    IF \E i \in 1..Len(its) : Has(its[i], "name") /\ its[i].name = name
    THEN CHOOSE i \in 1..Len(its) :
            /\ Has(its[i], "name") /\ its[i].name = name
            /\ \A j \in 1..(i - 1) : ~(Has(its[j], "name") /\ its[j].name = name)
    ELSE 0

\* current.quantity ?? 0
QuantityOrZero(item) == IF Has(item, "quantity") THEN item.quantity ELSE 0

\* mutant: nextQuantity without the clamp at 0
NextQuantityUnclamped(current, delta) == QuantityOrZero(current) + delta

\* Math.max(0, (current.quantity ?? 0) + delta)
NextQuantity(current, delta) == Max(0, QuantityOrZero(current) + delta)

\* mutant: items.splice(idx), which drops the tail as well
SpliceToEnd(its, idx) == SubSeq(its, 1, idx - 1)

\* items.splice(idx, 1)
Splice(its, idx) == [i \in 1..(Len(its) - 1) |-> IF i < idx THEN its[i] ELSE its[i + 1]]

\* mutant: an unknown name is added to the cart
AdjustMissingInserts(base, name, delta) ==
    WithItems(base,
              Append(IF ItemsIsArray(base) THEN base.items ELSE <<>>,
                     MkItem(<<"name", "quantity">>, name, Max(0, delta), 0)))

\* the idx === -1 branch: return baseState
AdjustMissing(base, name, delta) == base

\* the updater handed to setCartState
AdjustUpdater(prev, name, delta) ==
    LET base == AdjustBase(prev)
        its  == AdjustItems(base)
        idx  == FindIndex(its, name)
    IN  IF idx = 0 THEN AdjustMissing(base, name, delta)
        ELSE LET nq == NextQuantity(its[idx], delta)
             IN  WithItems(base,
                           IF nq = 0 THEN Splice(its, idx)
                           ELSE [its EXCEPT ![idx] = WithQuantity(its[idx], nq)])

-----------------------------------------------------------------------------
(* the merge effect *)

\* if (toolInput == null && toolOutput == null && widgetState == null) return;
MergeEarlyReturn(ti, to, ws) == ti.nul /\ to = "null" /\ ws.nul

\* mutant: toolInput?.items ?? [], whatever the value is
IncomingItemsAnyValue(ti) == IF ~ti.nul /\ Has(ti, "items") THEN ti.items ELSE <<>>

\* Array.isArray(toolInput?.items) ? toolInput.items ?? [] : []
IncomingItems(ti) == IF ItemsIsArray(ti) THEN ti.items ELSE <<>>

\* mutant: cartState ?? widgetState ?? { items: [] }
MergeBaseCartFirst(ws, cs) == IF ~cs.nul THEN cs ELSE IF ~ws.nul THEN ws ELSE EmptyCart

\* widgetState && typeof widgetState === "object" ? widgetState : cartState ?? { items: [] }
MergeBase(ws, cs) == IF ~ws.nul THEN ws ELSE IF ~cs.nul THEN cs ELSE EmptyCart

\* Array.isArray(baseState.items) ? baseState.items : []
BaseItems(base) == IF ItemsIsArray(base) THEN base.items ELSE <<>>

\* Map.prototype.get on the insertion-ordered map, {} for undefined
MapGet(m, name) ==
    IF \E i \in 1..Len(m) : m[i].key = name
    THEN (CHOOSE e \in {m[i] : i \in 1..Len(m)} : e.key = name).val
    ELSE EmptyItem

\* mutant: a set of an existing key moves the entry to the end, as a delete
\* followed by a set does
MapSetMoveToEnd(m, name, item) ==
    Append(SelectSeq(m, LAMBDA e : e.key # name), [key |-> name, val |-> item])

\* mutant: every set adds an entry, as pushing to an array does
MapSetAppend(m, name, item) == Append(m, [key |-> name, val |-> item])

\* Map.prototype.set: an existing key keeps its place
MapSet(m, name, item) ==
    IF \E i \in 1..Len(m) : m[i].key = name
    THEN [i \in 1..Len(m) |-> IF m[i].key = name THEN [key |-> name, val |-> item] ELSE m[i]]
    ELSE Append(m, [key |-> name, val |-> item])

\* for (const item of baseItems) if (item?.name) itemsByName.set(item.name, item)
RECURSIVE IndexBase(_, _, _)
IndexBase(m, its, i) ==
    IF i > Len(its) THEN m
    ELSE IndexBase(IF NameTruthy(its[i]) THEN MapSet(m, its[i].name, its[i]) ELSE m,
                   its, i + 1)

\* mutant: an entry already in the map is left as it is
OverlayKeepsEntry(m, item) ==
    IF \E i \in 1..Len(m) : m[i].key = item.name
    THEN m
    ELSE MapSet(m, item.name, SpreadItem(MapGet(m, item.name), item))

\* itemsByName.set(item.name, { ...itemsByName.get(item.name), ...item })
Overlay(m, item) == MapSet(m, item.name, SpreadItem(MapGet(m, item.name), item))

\* for (const item of incomingItems) if (item?.name) ...
RECURSIVE OverlayIncoming(_, _, _)
OverlayIncoming(m, its, i) ==
    IF i > Len(its) THEN m
    ELSE OverlayIncoming(IF NameTruthy(its[i]) THEN Overlay(m, its[i]) ELSE m,
                         its, i + 1)

\* Array.from(itemsByName.values())
MapValues(m) == [i \in 1..Len(m) |-> m[i].val]

\* mutant: nextItems = [...baseItems, ...incomingItems] of the named items
ItemsByNameConcat(baseItems, incoming) ==
    LET named == SelectSeq(baseItems \o incoming, NameTruthy)
    IN  [i \in 1..Len(named) |-> [key |-> named[i].name, val |-> named[i]]]

ItemsByName(baseItems, incoming) ==
    OverlayIncoming(IndexBase(<<>>, baseItems, 1), incoming, 1)

\* const nextState = { ...baseState, items: nextItems }
MergeNextState(ti, ws, cs) ==
    LET base == MergeBase(ws, cs)
    IN  WithItems(base, MapValues(ItemsByName(BaseItems(base), IncomingItems(ti))))

\* widgetState == null && toolOutput != null
ShouldForceSync(ws, to) == ws.nul /\ to # "null"

\* mutant: the marker test without the force flag
MergeSkippedIgnoringForce(force, serialized, marker) == serialized = marker

\* !shouldForceSyncFromResponse && serialized === lastMergedStateRef.current
MergeSkipped(force, serialized, marker) == ~force /\ serialized = marker

\* widgetStateEqual(a, b)
WidgetStateEqual(a, b) ==
    IF a.nul /\ b.nul THEN TRUE
    ELSE IF a.nul \/ b.nul THEN FALSE
    ELSE JsonStringify(a) = JsonStringify(b)

\* mutant: force && !widgetStateEqual(nextState, cartState)
MergePublishesBoth(force, next, cs) == force /\ ~WidgetStateEqual(next, cs)

\* shouldForceSyncFromResponse || !widgetStateEqual(nextState, cartState)
MergePublishes(force, next, cs) == force \/ ~WidgetStateEqual(next, cs)

-----------------------------------------------------------------------------
(* useWidgetState: the state cell and its setter *)

\* the initializer handed to useWidgetState
InitialCartState(ws) == IF ~ws.nul THEN ws ELSE EmptyCart

\* setCartState(value): the cell takes the value
SetCartStateValue(prev, value) == value

\* setCartState(updater): the updater is applied to the cell's latest value
SetCartStateUpdater(prev, name, delta) == AdjustUpdater(prev, name, delta)

-----------------------------------------------------------------------------
(* The values the feeds deliver *)

ItemA1  == MkItem(<<"name", "quantity">>, "A", 1, 0)
ItemA2  == MkItem(<<"name", "quantity">>, "A", 2, 0)
ItemA1r == MkItem(<<"quantity", "name">>, "A", 1, 0)
ItemA2p == MkItem(<<"name", "quantity", "price">>, "A", 2, 10)
ItemB2  == MkItem(<<"name", "quantity">>, "B", 2, 0)
ItemN1  == MkItem(<<"name", "quantity">>, "", 1, 0)
ItemQ1  == MkItem(<<"quantity">>, "", 1, 0)
ItemBx  == MkItem(<<"name", "quantity", "price">>, "B", 1, -1)

Input(its) == MkState(<<"items">>, "", TRUE, its)

\* { items: { 0: ..., length: n } }: the value under items holds items and is
\* no array
ArrayLike(its) == MkState(<<"items">>, "", FALSE, its)

\* toolInput: null, {}, { items: "n/a" }, { items: [...] }
ToolInputs ==
    { Null, EmptyObject, ArrayLike(<<ItemB2>>),
      Input(<<ItemA1r>>), Input(<<ItemA1, ItemA2>>), Input(<<ItemN1, ItemQ1, ItemB2>>) }

\* a toolInput with an item whose opaque field cannot be serialized
OpaqueInputs == { Input(<<ItemBx>>) }

\* toolOutput: null or a tool result (its shape is never read)
ToolOutputs == {"null", "result"}

\* widgetState as the host restores it: null or a CartWidgetState
HostStates ==
    { Null,
      MkState(<<"items">>, "", TRUE, <<ItemA1>>),
      MkState(<<"cartId", "items">>, "c1", TRUE, <<ItemN1, ItemA2p>>),
      MkState(<<"cartId">>, "c1", FALSE, <<>>) }

\* the names and deltas adjustQuantity is called with
EditNames == {"", "A", "Z"}
EditDeltas == {-2, -1, 0, 1}

-----------------------------------------------------------------------------
(* Observation of the last handler *)

\* kind: the handler; pub: its calls of setCartState.
\* edit: name, delta, idx (the index found, 0 for none), raw (quantity + delta).
\* merge: force (shouldForceSyncFromResponse), eqMarker (serialized equalled the
\* marker), eqCart (widgetStateEqual(nextState, cartState)), rerun (the run was
\* caused by the publish of the run right before it).
Ev(kind, name, delta, idx, raw, pub, force, eqMarker, eqCart, rerun) ==
    [kind |-> kind, name |-> name, delta |-> delta, idx |-> idx, raw |-> raw,
     pub |-> pub, force |-> force, eqMarker |-> eqMarker, eqCart |-> eqCart,
     rerun |-> rerun]

EvPlain(kind) == Ev(kind, "", 0, 0, 0, 0, FALSE, FALSE, FALSE, FALSE)

EvEdit(name, delta, idx, raw, pub) ==
    Ev("edit", name, delta, idx, raw, pub, FALSE, FALSE, FALSE, FALSE)

EvMerge(pub, force, eqMarker, eqCart) ==
    Ev("merge", "", 0, 0, 0, pub, force, eqMarker, eqCart,
       ev.kind = "merge" /\ ev.pub = 1)

-----------------------------------------------------------------------------
(* The state machine *)

Init ==
    /\ toolInput = Null
    /\ toolOutput = "null"
    /\ widgetState \in HostStates
    /\ cartState = InitialCartState(widgetState)
    /\ lastMergedStateRef = "__cart_merge_unset__"
    /\ effectPending = TRUE
    /\ ev = EvPlain("init")

\* the host delivers toolInput (a re-delivery of the same value included)
SetToolInput(v) ==
    /\ toolInput' = v
    /\ effectPending' = TRUE
    /\ ev' = EvPlain("feed")
    /\ UNCHANGED <<toolOutput, widgetState, cartState, lastMergedStateRef>>

\* the host delivers toolOutput
SetToolOutput(v) ==
    /\ toolOutput' = v
    /\ effectPending' = TRUE
    /\ ev' = EvPlain("feed")
    /\ UNCHANGED <<toolInput, widgetState, cartState, lastMergedStateRef>>

\* the host delivers a widgetState of its own (restored, or reset to null)
SetWidgetState(v) ==
    /\ widgetState' = v
    /\ effectPending' = TRUE
    /\ ev' = EvPlain("feed")
    /\ UNCHANGED <<toolInput, toolOutput, cartState, lastMergedStateRef>>

\* the host reflects the last published state back as widgetState
HostReflect ==
    /\ widgetState' = cartState
    /\ effectPending' = TRUE
    /\ ev' = EvPlain("feed")
    /\ UNCHANGED <<toolInput, toolOutput, cartState, lastMergedStateRef>>

\* mutant: the edit goes through the change detection of the merge path
AdjustQuantityDetected(name, delta) ==
    LET next == AdjustUpdater(cartState, name, delta)
        idx  == FindIndex(AdjustItems(AdjustBase(cartState)), name)
        raw  == IF idx = 0 THEN 0
                ELSE QuantityOrZero(AdjustItems(AdjustBase(cartState))[idx]) + delta
    IN  /\ raw <= MaxQty
        /\ IF AdjustGuard(name, delta) \/ JsonStringify(next) = lastMergedStateRef
           THEN /\ ev' = EvEdit(name, delta, 0, 0, 0)
                /\ UNCHANGED <<cartState, effectPending>>
           ELSE /\ cartState' = next
                /\ effectPending' = (effectPending \/ idx # 0 \/ cartState.nul)
                /\ ev' = EvEdit(name, delta, idx, raw, 1)
        /\ UNCHANGED <<toolInput, toolOutput, widgetState, lastMergedStateRef>>

\* adjustQuantity(name, delta)
AdjustQuantity(name, delta) ==
    LET base == AdjustBase(cartState)
        its  == AdjustItems(base)
        idx  == FindIndex(its, name)
        raw  == IF idx = 0 THEN 0 ELSE QuantityOrZero(its[idx]) + delta
    IN  /\ raw <= MaxQty
        /\ IF AdjustGuard(name, delta)
           THEN /\ ev' = EvEdit(name, delta, 0, 0, 0)
                /\ UNCHANGED <<cartState, effectPending>>
           ELSE /\ cartState' = SetCartStateUpdater(cartState, name, delta)
                \* a returned baseState is the same object: no re-render
                /\ effectPending' = (effectPending \/ idx # 0 \/ cartState.nul)
                /\ ev' = EvEdit(name, delta, idx, raw, 1)
        /\ UNCHANGED <<toolInput, toolOutput, widgetState, lastMergedStateRef>>

\* one run of the merge effect
MergeEffect ==
    /\ effectPending
    /\ UNCHANGED <<toolInput, toolOutput, widgetState>>
    /\ IF MergeEarlyReturn(toolInput, toolOutput, widgetState)
       THEN /\ effectPending' = FALSE
            /\ ev' = EvMerge(0, FALSE, FALSE, FALSE)
            /\ UNCHANGED <<cartState, lastMergedStateRef>>
       ELSE LET next       == MergeNextState(toolInput, widgetState, cartState)
                serialized == JsonStringify(next)
                force      == ShouldForceSync(widgetState, toolOutput)
                eqMarker   == serialized = lastMergedStateRef
                eqCart     == WidgetStateEqual(next, cartState)
            IN  IF JsonThrows(next)
                THEN \* JSON.stringify(nextState) throws out of the effect
                     /\ effectPending' = FALSE
                     /\ ev' = EvPlain("throw")
                     /\ UNCHANGED <<cartState, lastMergedStateRef>>
                ELSE IF MergeSkipped(force, serialized, lastMergedStateRef)
                THEN /\ effectPending' = FALSE
                     /\ ev' = EvMerge(0, force, eqMarker, eqCart)
                     /\ UNCHANGED <<cartState, lastMergedStateRef>>
                ELSE /\ lastMergedStateRef' = serialized
                     /\ IF MergePublishes(force, next, cartState)
                        THEN /\ cartState' = SetCartStateValue(cartState, next)
                             \* a new object in the cell: the effect runs again
                             /\ effectPending' = TRUE
                             /\ ev' = EvMerge(1, force, eqMarker, eqCart)
                        ELSE /\ effectPending' = FALSE
                             /\ ev' = EvMerge(0, force, eqMarker, eqCart)
                             /\ UNCHANGED cartState

Next ==
    \/ \E v \in ToolInputs : SetToolInput(v)
    \/ \E v \in ToolOutputs : SetToolOutput(v)
    \/ \E v \in HostStates : SetWidgetState(v)
    \/ HostReflect
    \/ \E name \in EditNames, delta \in EditDeltas : AdjustQuantity(name, delta)
    \/ MergeEffect

Spec == Init /\ [][Next]_vars

\* The effect of a render has run before the next event is handled, unless the
\* render is the one the effect itself asked for by publishing.
EffectsFlushed == ~effectPending \/ (ev.kind = "merge" /\ ev.pub = 1)

\* Next with the events taken in that order only
OrderedNext ==
    \/ EffectsFlushed /\ \E v \in ToolInputs : SetToolInput(v)
    \/ EffectsFlushed /\ \E v \in ToolOutputs : SetToolOutput(v)
    \/ EffectsFlushed /\ \E v \in HostStates : SetWidgetState(v)
    \/ EffectsFlushed /\ HostReflect
    \/ EffectsFlushed /\ \E name \in EditNames, delta \in EditDeltas :
                             AdjustQuantity(name, delta)
    \/ MergeEffect

SpecOrdered == Init /\ [][OrderedNext]_vars

\* Next with feeds that may carry a value JSON.stringify throws on.  An error
\* thrown out of the effect unmounts the component: nothing runs after it.
Mounted == ev.kind # "throw"

OpaqueNext ==
    \/ Mounted /\ \E v \in ToolInputs \cup OpaqueInputs : SetToolInput(v)
    \/ Mounted /\ \E v \in ToolOutputs : SetToolOutput(v)
    \/ Mounted /\ \E v \in HostStates : SetWidgetState(v)
    \/ Mounted /\ HostReflect
    \/ Mounted /\ \E name \in EditNames, delta \in EditDeltas :
                      AdjustQuantity(name, delta)
    \/ Mounted /\ MergeEffect

SpecOpaque == Init /\ [][OpaqueNext]_vars

-----------------------------------------------------------------------------
(* Helpers of the properties *)

\* the items of a state, as the handlers read them
ItemsOf(st) == IF ItemsIsArray(st) THEN st.items ELSE <<>>

\* the quantity of the first item of that name, -1 when there is none
QuantityOf(st, name) ==
    LET idx == FindIndex(ItemsOf(st), name)
    IN  IF idx = 0 THEN -1 ELSE QuantityOrZero(ItemsOf(st)[idx])

\* the last handler was adjustQuantity and it found the item
EditFound == ev.kind = "edit" /\ ev.pub = 1 /\ ev.idx # 0

-----------------------------------------------------------------------------
(* C1 *)

\* C1: once adjustQuantity(name, delta) has set an item's quantity (or removed
\* the item at zero), a run of the merge effect with toolInput unchanged
\* publishes no state in which that item has another quantity or is back.
\* Stated for the run that directly follows the edit.
C1_MergeKeepsLocalEdit ==
    [][(EditFound /\ ev'.kind = "merge" /\ ev'.pub = 1)
         => QuantityOf(cartState', ev.name) = QuantityOf(cartState, ev.name)]_vars

-----------------------------------------------------------------------------
(* C2 *)

\* C2 as claimed: a run of the merge effect that directly follows another run
\* (same toolInput, toolOutput and widgetState, no edit in between) does not
\* call setCartState.
C2_SecondRunSuppressed ==
    [][(ev.kind = "merge" /\ ev'.kind = "merge") => ev'.pub = 0]_vars

\* C2 amended: when the force flag is false, a run that directly follows
\* another run does not call setCartState and leaves cartState and the marker
\* alone, so setCartState is called exactly once across the two runs.
C2_SecondRunSuppressedUnlessForced ==
    [][(ev.kind = "merge" /\ ev'.kind = "merge" /\ ~ev'.force)
         => /\ ev.pub + ev'.pub = 1
            /\ cartState' = cartState
            /\ lastMergedStateRef' = lastMergedStateRef]_vars

\* a run without the force flag that followed a publishing run and was skipped
C2_Witness ==
    ev.kind = "merge" /\ ev.rerun /\ ~ev.force /\ ev.eqMarker /\ ev.pub = 0

-----------------------------------------------------------------------------
(* C3 *)

\* C3: the force flag of a run is true exactly when widgetState is null and
\* toolOutput is not, and a run with the flag true calls setCartState with the
\* state it computed, whatever the marker and cartState are.
C3_ForcedResyncPublishes ==
    [][ev'.kind = "merge"
         => /\ ev'.force <=> (widgetState.nul /\ toolOutput # "null")
            /\ ev'.force =>
                 /\ ev'.pub = 1
                 /\ cartState' = MergeNextState(toolInput, widgetState, cartState)]_vars

\* a forced run published a state whose serialization equalled the marker and
\* cartState
C3_Witness ==
    ev.kind = "merge" /\ ev.force /\ ev.eqMarker /\ ev.eqCart /\ ev.pub = 1

-----------------------------------------------------------------------------
(* C4 *)

KeySet(obj) == {obj.keys[i] : i \in 1..Len(obj.keys)}

\* two items with the same fields and values, whatever the order of the keys
SameItem(a, b) ==
    /\ KeySet(a) = KeySet(b)
    /\ Has(a, "name") => a.name = b.name
    /\ Has(a, "quantity") => a.quantity = b.quantity
    /\ Has(a, "price") => a.price = b.price

\* structural equality of two states
StructurallyEqual(s, t) ==
    /\ s.nul = t.nul
    /\ KeySet(s) = KeySet(t)
    /\ Has(s, "cartId") => s.cartId = t.cartId
    /\ Has(s, "items") =>
         /\ s.arr = t.arr
         /\ Len(s.items) = Len(t.items)
         /\ \A i \in 1..Len(s.items) : SameItem(s.items[i], t.items[i])

\* C4: a run of the merge effect without the force flag publishes only if the
\* serialization of the computed state differs from the marker, never publishes
\* a state structurally equal to cartState, and leaves cartState and the marker
\* alone when the serialization equals the marker.
C4_NoRepublishOfEqualState ==
    [][(ev'.kind = "merge" /\ ~ev'.force)
         => /\ ev'.pub = 1 =>
                 /\ ~ev'.eqMarker
                 /\ ~StructurallyEqual(cartState', cartState)
            /\ ev'.eqMarker =>
                 /\ cartState' = cartState
                 /\ lastMergedStateRef' = lastMergedStateRef]_vars

-----------------------------------------------------------------------------
(* C5 *)

\* C5: adjustQuantity(name, delta) with a non-empty name and delta # 0 calls
\* setCartState exactly once, with the updater applied to cartState, and leaves
\* the marker alone, also when the state it writes serializes to the marker.
C5_EditAlwaysPublishes ==
    [][(ev'.kind = "edit" /\ ev'.name # "" /\ ev'.delta # 0)
         => /\ ev'.pub = 1
            /\ cartState' = AdjustUpdater(cartState, ev'.name, ev'.delta)
            /\ lastMergedStateRef' = lastMergedStateRef]_vars

\* a decrement was published although the state it wrote serializes to the
\* marker
C5_Witness ==
    /\ EditFound /\ ev.delta = -1
    /\ JsonStringify(cartState) = lastMergedStateRef

-----------------------------------------------------------------------------
(* C6 *)

\* C6: every item of cartState has a quantity >= 0.
C6_QuantityNonNegative ==
    \A i \in 1..Len(ItemsOf(cartState)) :
        Has(ItemsOf(cartState)[i], "quantity") => ItemsOf(cartState)[i].quantity >= 0

\* an edit whose delta took the quantity below zero
C6_Witness == EditFound /\ ev.raw < 0

-----------------------------------------------------------------------------
(* C7 *)

\* C7: cartState holds at most one item per name.
C7_NamesUnique ==
    \A i, j \in 1..Len(ItemsOf(cartState)) :
        (/\ i # j
         /\ Has(ItemsOf(cartState)[i], "name")
         /\ Has(ItemsOf(cartState)[j], "name"))
        => ItemsOf(cartState)[i].name # ItemsOf(cartState)[j].name

\* a merge published while toolInput held the same name twice
C7_Witness ==
    /\ ev.kind = "merge" /\ ev.pub = 1
    /\ \E i, j \in 1..Len(IncomingItems(toolInput)) :
          i # j /\ IncomingItems(toolInput)[i].name = IncomingItems(toolInput)[j].name

-----------------------------------------------------------------------------
(* C8 *)

\* C8: when adjustQuantity finds the item, nextQuantity is
\* max(0, quantity + delta); at 0 the item is removed and the others keep their
\* place, otherwise the item is replaced by a copy with that quantity and its
\* other fields as they were.
C8_ClampAndRemoveOnZero ==
    [][(ev'.kind = "edit" /\ ev'.pub = 1 /\ ev'.idx # 0)
         => LET its == ItemsOf(cartState)
                new == ItemsOf(cartState')
                idx == ev'.idx
                nq  == IF its[idx].quantity + ev'.delta > 0
                       THEN its[idx].quantity + ev'.delta ELSE 0
            IN  /\ its[idx].name = ev'.name
                /\ IF nq = 0
                   THEN /\ Len(new) = Len(its) - 1
                        /\ \A i \in 1..Len(new) :
                              new[i] = IF i < idx THEN its[i] ELSE its[i + 1]
                        /\ \A i \in 1..Len(new) : new[i].name # ev'.name
                   ELSE /\ Len(new) = Len(its)
                        /\ \A i \in 1..Len(new) : i # idx => new[i] = its[i]
                        /\ new[idx].quantity = nq
                        /\ new[idx].keys = its[idx].keys
                        /\ new[idx].name = its[idx].name
                        /\ new[idx].price = its[idx].price]_vars

\* an edit replaced an item that carries another field and kept that field
C8_Witness ==
    /\ EditFound /\ ev.raw > 0
    /\ Has(ItemsOf(cartState)[ev.idx], "price")
    /\ ItemsOf(cartState)[ev.idx].quantity = ev.raw

-----------------------------------------------------------------------------
(* C9 *)

\* C9: adjustQuantity with an empty name or with delta = 0 leaves cartState and
\* the marker as they were.
C9_NoOpEdit ==
    [][(ev'.kind = "edit" /\ (ev'.name = "" \/ ev'.delta = 0))
         => /\ cartState' = cartState
            /\ lastMergedStateRef' = lastMergedStateRef]_vars

\* adjustQuantity("", delta) with delta # 0 on a cart that holds an item whose
\* name is the empty string
C9_Witness ==
    /\ ev.kind = "edit" /\ ev.name = "" /\ ev.delta # 0 /\ ev.pub = 0
    /\ \E i \in 1..Len(ItemsOf(cartState)) :
          Has(ItemsOf(cartState)[i], "name") /\ ItemsOf(cartState)[i].name = ""

-----------------------------------------------------------------------------
(* C10 *)

\* C10: adjustQuantity(name, delta) with a non-empty name that no item of
\* cartState has and delta # 0 leaves cartState as it was.
C10_UnknownNameEdit ==
    [][(/\ ev'.kind = "edit" /\ ev'.name # "" /\ ev'.delta # 0
        /\ \A i \in 1..Len(ItemsOf(cartState)) :
              ~(Has(ItemsOf(cartState)[i], "name")
                /\ ItemsOf(cartState)[i].name = ev'.name))
         => cartState' = cartState]_vars

\* an edit of a name the cart does not hold went through the updater, on a cart
\* that holds other items
C10_Witness ==
    /\ ev.kind = "edit" /\ ev.name = "Z" /\ ev.delta # 0 /\ ev.pub = 1 /\ ev.idx = 0
    /\ Len(ItemsOf(cartState)) > 0

-----------------------------------------------------------------------------
(* C11 *)

Fields == {"name", "quantity", "price"}

\* both items have field k with the same value
FieldEq(a, b, k) ==
    /\ Has(a, k) /\ Has(b, k)
    /\ CASE k = "name"     -> a.name = b.name
         [] k = "quantity" -> a.quantity = b.quantity
         [] OTHER          -> a.price = b.price

\* this step is a run of the merge effect that published cartState'
MergePublished == ev'.kind = "merge" /\ ev'.pub = 1

\* the incoming item shows in the merged items as the overlay rule says: on a
\* base item of its name, each of its fields with its value and every other
\* field as the base item has it; with no base item of its name, as it is
OverlaidOnBase(baseItems, item, out) ==
    LET b == FindIndex(baseItems, item.name)
        o == FindIndex(out, item.name)
    IN  /\ o # 0
        /\ IF b = 0 THEN out[o] = item
           ELSE \A k \in Fields :
                   IF Has(item, k) THEN FieldEq(out[o], item, k)
                   ELSE /\ Has(out[o], k) <=> Has(baseItems[b], k)
                        /\ Has(baseItems[b], k) => FieldEq(out[o], baseItems[b], k)

\* no other item of the sequence has the name of the i-th
OccursOnce(its, i) ==
    \A j \in 1..Len(its) :
        j # i => ~(Has(its[j], "name") /\ its[j].name = its[i].name)

\* C11 as stated: a run of the merge effect publishes a state in which every
\* named incoming item is overlaid on the base item of its name (its fields
\* from the incoming item, the other fields from the base item), or stands as
\* it is when the base has no item of its name.
C11_OverlayEveryIncoming ==
    [][MergePublished =>
         LET baseItems == BaseItems(MergeBase(widgetState, cartState))
             incoming  == IncomingItems(toolInput)
         IN  \A i \in 1..Len(incoming) :
                NameTruthy(incoming[i])
                  => OverlaidOnBase(baseItems, incoming[i], ItemsOf(cartState'))]_vars

\* C11, amended: the same of every named incoming item whose name occurs once
\* in the incoming sequence.
C11_OverlayPrecedence ==
    [][MergePublished =>
         LET baseItems == BaseItems(MergeBase(widgetState, cartState))
             incoming  == IncomingItems(toolInput)
         IN  \A i \in 1..Len(incoming) :
                (NameTruthy(incoming[i]) /\ OccursOnce(incoming, i))
                  => OverlaidOnBase(baseItems, incoming[i], ItemsOf(cartState'))]_vars

\* a run published { name: "A", quantity: 1, price: 10 }: the quantity of the
\* incoming { quantity: 1, name: "A" } on the price of the base item
C11_Witness ==
    /\ ev.kind = "merge" /\ ev.pub = 1
    /\ toolInput = Input(<<ItemA1r>>)
    /\ \E i \in 1..Len(ItemsOf(cartState)) :
          ItemsOf(cartState)[i] = MkItem(<<"name", "quantity", "price">>, "A", 1, 10)

-----------------------------------------------------------------------------
(* C12 *)

\* the place of the last item of that name in the sequence, 0 when there is none
LastIndex(its, name) ==
    IF \E i \in 1..Len(its) : Has(its[i], "name") /\ its[i].name = name
    THEN CHOOSE i \in 1..Len(its) :
            /\ Has(its[i], "name") /\ its[i].name = name
            /\ \A j \in (i + 1)..Len(its) : ~(Has(its[j], "name") /\ its[j].name = name)
    ELSE 0

\* how many items of the sequence have that name
CountOf(its, name) ==
    Cardinality({i \in 1..Len(its) : Has(its[i], "name") /\ its[i].name = name})

\* C12: when several incoming items have the same non-empty name, the state a
\* run of the merge effect publishes holds exactly one item of that name, and
\* every field the last of them has is in that item with the last one's value.
C12_DuplicateIncomingLastWins ==
    [][MergePublished =>
         LET incoming == IncomingItems(toolInput)
             out      == ItemsOf(cartState')
         IN  \A i \in 1..Len(incoming) :
                (NameTruthy(incoming[i]) /\ ~OccursOnce(incoming, i))
                  => /\ CountOf(out, incoming[i].name) = 1
                     /\ LET last == incoming[LastIndex(incoming, incoming[i].name)]
                            o    == out[FindIndex(out, incoming[i].name)]
                        IN  \A k \in Fields : Has(last, k) => FieldEq(o, last, k)]_vars

\* a run published quantity 2 for "A" out of the incoming A:1, A:2
C12_Witness ==
    /\ ev.kind = "merge" /\ ev.pub = 1
    /\ toolInput = Input(<<ItemA1, ItemA2>>)
    /\ CountOf(ItemsOf(cartState), "A") = 1
    /\ QuantityOf(cartState, "A") = 2

-----------------------------------------------------------------------------
(* C13 *)

\* this step is a run of the merge effect, whatever its end
MergeRan == ev'.kind \in {"merge", "throw"}

\* the items of the sequence that have a non-empty name
Named(its) == SelectSeq(its, LAMBDA it : Has(it, "name") /\ it.name # "")

NamesOf(its) == {its[i].name : i \in 1..Len(its)}

\* C13: a run of the merge effect never ends in an error, whatever the shape
\* of toolInput; the state it publishes holds no item with an empty or missing
\* name; when toolInput is null or its items field is missing or not an array
\* the published items are the named base items and nothing else, and when the
\* field is an array every named item of it is in the published state.
C13_MalformedInputNeverFails ==
    [][MergeRan =>
         /\ ev'.kind = "merge"
         /\ ev'.pub = 1 =>
              LET out       == ItemsOf(cartState')
                  baseItems == BaseItems(MergeBase(widgetState, cartState))
                  isArray   == ~toolInput.nul /\ Has(toolInput, "items") /\ toolInput.arr
              IN  /\ Named(out) = out
                  /\ ~isArray => out = Named(baseItems)
                  /\ isArray =>
                       NamesOf(out) = NamesOf(Named(baseItems))
                                        \cup NamesOf(Named(toolInput.items))]_vars

\* a run published the one named base item: the base held a nameless item too
\* and the value under toolInput.items was not an array
C13_Witness ==
    /\ ev.kind = "merge" /\ ev.pub = 1
    /\ toolInput = ArrayLike(<<ItemB2>>)
    /\ widgetState = MkState(<<"cartId", "items">>, "c1", TRUE, <<ItemN1, ItemA2p>>)
    /\ ItemsOf(cartState) = <<ItemA2p>>

-----------------------------------------------------------------------------
(* C14 *)

\* C14: a run of the merge effect whose computed next state cannot be
\* serialized publishes that state, and no run of the merge effect ends in an
\* error.
C14_SerializationFailurePublishes ==
    [][MergeRan =>
         /\ ev'.kind = "merge"
         /\ (/\ ~MergeEarlyReturn(toolInput, toolOutput, widgetState)
             /\ JsonThrows(MergeNextState(toolInput, widgetState, cartState)))
              => /\ ev'.pub = 1
                 /\ cartState' = MergeNextState(toolInput, widgetState, cartState)]_vars

-----------------------------------------------------------------------------
(* C15 *)

\* C15 as stated: the marker is only ever set by a run of the merge effect
\* that publishes, to the serialization of the state it publishes; it never
\* takes the serialization of a state that was computed and not published.
C15_MarkerOnlyPublished ==
    [][lastMergedStateRef' # lastMergedStateRef
         => /\ ev'.kind = "merge" /\ ev'.pub = 1
            /\ lastMergedStateRef' = JsonStringify(cartState')]_vars

\* C15, amended: the marker is only ever set by a run of the merge effect, to
\* the serialization of the state the run computed, which never is the
\* sentinel; the run either publishes that state or finds it equal by
\* serialization to cartState and leaves cartState as it is.
C15_MarkerIsLastMerged ==
    [][lastMergedStateRef' # lastMergedStateRef
         => /\ ev'.kind = "merge"
            /\ lastMergedStateRef' # "__cart_merge_unset__"
            /\ lastMergedStateRef' =
                  JsonStringify(MergeNextState(toolInput, widgetState, cartState))
            /\ \/ /\ ev'.pub = 1
                  /\ cartState' = MergeNextState(toolInput, widgetState, cartState)
               \/ /\ ev'.pub = 0
                  /\ cartState' = cartState
                  /\ lastMergedStateRef' = JsonStringify(cartState)]_vars

\* a run has set the marker to the serialization of the state it computed and
\* has not published it, cartState having that serialization already
C15_Witness ==
    /\ ev.kind = "merge" /\ ev.pub = 0 /\ ~ev.eqMarker /\ ev.eqCart
    /\ lastMergedStateRef # "__cart_merge_unset__"
    /\ lastMergedStateRef = JsonStringify(cartState)

-----------------------------------------------------------------------------
(* C16 *)

\* C16: the state a run of the merge effect publishes is built on widgetState
\* when that is not null and on cartState otherwise (cartState is never null):
\* it has the top-level fields of that base with their values, cartId among
\* them, and an items field in which every named item of the base has its
\* place; only items is replaced.
C16_MergeBaseSelection ==
    [][MergePublished =>
         LET base == IF ~widgetState.nul THEN widgetState ELSE cartState
             out  == cartState'
         IN  /\ ~cartState.nul /\ ~out.nul
             /\ KeySet(out) = KeySet(base) \cup {"items"}
             /\ SelectSeq(out.keys, LAMBDA k : k # "items")
                  = SelectSeq(base.keys, LAMBDA k : k # "items")
             /\ Has(base, "cartId") => out.cartId = base.cartId
             /\ out.arr
             /\ \A i \in 1..Len(Named(ItemsOf(base))) :
                   Len(out.items) >= i
                     /\ out.items[i].name = Named(ItemsOf(base))[i].name]_vars

\* a run published widgetState = { cartId: "c1", items: [..., A] } less its
\* nameless item, with nothing coming in by toolInput, over a cartState with
\* another serialization
C16_Witness ==
    /\ ev.kind = "merge" /\ ev.pub = 1 /\ ~ev.force /\ ~ev.eqCart
    /\ toolInput = Null
    /\ widgetState = MkState(<<"cartId", "items">>, "c1", TRUE, <<ItemN1, ItemA2p>>)
    /\ cartState = MkState(<<"cartId", "items">>, "c1", TRUE, <<ItemA2p>>)

-----------------------------------------------------------------------------
(* C17 *)

\* the sequence without its i-th element
Without(its, i) == SubSeq(its, 1, i - 1) \o SubSeq(its, i + 1, Len(its))

\* C17: an adjustQuantity call that finds the item changes nothing but that
\* item: the other items are the same, in the same order; the item is either
\* gone or has the fields it had, quantity apart; the other top-level fields
\* of cartState are as they were; toolInput, toolOutput, widgetState (whose
\* item objects the first cartState shares) and the marker are unchanged.
C17_EditFrame ==
    [][(ev'.kind = "edit" /\ ev'.pub = 1 /\ ev'.idx # 0)
         => LET old == ItemsOf(cartState)
                new == ItemsOf(cartState')
                idx == ev'.idx
            IN  /\ cartState'.keys = cartState.keys
                /\ cartState'.cartId = cartState.cartId
                /\ cartState'.nul = cartState.nul /\ cartState'.arr = cartState.arr
                /\ \/ new = Without(old, idx)
                   \/ /\ Len(new) = Len(old)
                      /\ Without(new, idx) = Without(old, idx)
                      /\ \A k \in Fields \ {"quantity"} :
                            /\ Has(new[idx], k) <=> Has(old[idx], k)
                            /\ Has(old[idx], k) => FieldEq(new[idx], old[idx], k)
                /\ toolInput' = toolInput
                /\ toolOutput' = toolOutput
                /\ widgetState' = widgetState
                /\ lastMergedStateRef' = lastMergedStateRef]_vars

\* an edit of "A" on a cart that has a cartId and holds "B" as well
C17_Witness ==
    /\ EditFound /\ ev.name = "A"
    /\ Has(cartState, "cartId") /\ cartState.cartId = "c1"
    /\ FindIndex(ItemsOf(cartState), "B") # 0

-----------------------------------------------------------------------------
(* C18 *)

\* C18: with toolInput, toolOutput and widgetState still and no edit, the runs
\* of the merge effect publish finitely often.  A run is a function of the
\* three feeds, cartState and the marker, so a run that publishes, asks for
\* the re-run and leaves cartState and the marker as they were is followed by
\* the same run without end: the claim says there is no such run.
C18_PublishingRunsEnd ==
    [][MergePublished
         => ~(/\ effectPending'
              /\ cartState' = cartState
              /\ lastMergedStateRef' = lastMergedStateRef)]_vars

-----------------------------------------------------------------------------
(* C19 *)

\* the names of the items in order, each at its first place only, less the
\* names in seen
RECURSIVE DistinctNames(_, _)
DistinctNames(its, seen) ==
    IF its = <<>> THEN <<>>
    ELSE IF Head(its).name \in seen THEN DistinctNames(Tail(its), seen)
    ELSE <<Head(its).name>> \o DistinctNames(Tail(its), seen \cup {Head(its).name})

\* C19: the items of the state a run of the merge effect publishes are one
\* item for each distinct non-empty name of the base or of the incoming
\* sequence: first the names of the base in the order of their first place in
\* the base, then the names only the incoming sequence has, in the order they
\* come in; no named base item is missing and no nameless item is there.
C19_MergeAdditiveOrderStable ==
    [][MergePublished =>
         LET baseItems == Named(BaseItems(MergeBase(widgetState, cartState)))
             incoming  == Named(IncomingItems(toolInput))
             out       == ItemsOf(cartState')
         IN  /\ Named(out) = out
             /\ [i \in 1..Len(out) |-> out[i].name]
                  = DistinctNames(baseItems, {})
                      \o DistinctNames(incoming, NamesOf(baseItems))]_vars

\* a run published A, B out of the base A, B and the incoming A
C19_Witness ==
    /\ ev.kind = "merge" /\ ev.pub = 1
    /\ widgetState = Null
    /\ toolInput = Input(<<ItemA1r>>)
    /\ Len(ItemsOf(cartState)) = 2
    /\ ItemsOf(cartState)[1].name = "A" /\ ItemsOf(cartState)[1].quantity = 1
    /\ ItemsOf(cartState)[2] = ItemB2

=============================================================================
